---- MODULE Spec2Model ----
(***************************************************************************)
(* Model of src/Converter.jsx: the React component Converter, its engine   *)
(* bootstrap (load), its conversion workflow (convert) and the form that   *)
(* drives them.  The external engine (@ffmpeg/ffmpeg 0.12, `new FFmpeg()`) *)
(* is the environment: every promise the component awaits either resolves  *)
(* or rejects, and FFmpeg.exec resolves with the engine's exit code        *)
(* (0 = no error, != 0 = error), which line 95 discards.                    *)
(***************************************************************************)
EXTENDS Integers, Sequences, FiniteSets, TLC

\* ------------------------------------------------------------------ bounds

\* convert invocations (clicks on the trigger) within one session
MaxCalls == 2

\* ------------------------------------------------------- program constants

Formats == {"wav", "flac", "mp3"}
BitDepths == {"16", "24", "32"}
SampleRates == {"44100", "48000"}

\* values the builder must tolerate although no <option> offers them
AnyBitDepths == BitDepths \cup {"8", ""}
AnySampleRates == SampleRates \cup {"22050", ""}

ReadyMessage == "Listo para convertir"
LoadErrorMessage == "Error al cargar el motor de audio. Revisa la consola."
ConversionErrorMessage == "Error durante la conversión."

\* free-text lines the engine emits through on('log')
LogLines == {"size=64kB time=00:00:01"}

\* what the user can put into <input type="file" id="uploader">
Files == {"a.flac"}
\* fileInput.files[0] of an empty picker
NoFile == "undefined"

\* ------------------------------------------------------ the engine storage

StorageNames == {"input"} \cup {"output." \o f : f \in Formats}
\* a buffer: the convert call that produced it and the file it derives from
Absent == [by |-> 0, of |-> NoFile]
EmptyStorage == [n \in StorageNames |-> Absent]

\* ---------------------------------------------------------------- the state

VARIABLES
    loaded,      \* useState(false), line 6
    isLoading,   \* useState(false), line 7: the busy flag
    logMessage,  \* useState('Listo para convertir'), line 8
    format,      \* useState('wav'), line 11
    bitDepth,    \* useState('16'), line 12
    sampleRate,  \* useState('44100'), line 13
    loadPc,      \* position of the one load() call started by useEffect
    fileSel,     \* document.getElementById('uploader').files[0]
    fs,          \* the engine's virtual storage (ffmpegRef.current)
    nCalls,      \* convert invocations so far
    calls        \* the convert invocations still running, and the one that ended last

vars == <<loaded, isLoading, logMessage, format, bitDepth, sampleRate,
          loadPc, fileSel, fs, nCalls, calls>>

\* a convert call that has not clicked its download link
NoDownload == [name |-> "", type |-> "", data |-> Absent]
\* the value of a call's exec promise: none yet, or the engine's exit code
NoExit == -1
ExitCodes == {0, 1}

\* Each convert call is a record: its id, the file and the option values its
\* closure holds, its position (pc), whether it alerted, the engine and
\* download steps it has made so far, its args and outputFilename, the exit
\* code its exec resolved with, the step that failed, and its download.

Running == {"fetchFile", "writeFile", "exec", "readFile"}

InFlight(i) == calls[i].pc \in Running

Init ==
    /\ loaded = FALSE
    /\ isLoading = FALSE
    /\ logMessage = ReadyMessage
    /\ format = "wav"
    /\ bitDepth = "16"
    /\ sampleRate = "44100"
    /\ loadPc = "mount"
    /\ fileSel = NoFile
    /\ fs = EmptyStorage
    /\ nCalls = 0
    /\ calls = <<>>

\* ------------------------------------------------------------------ load()

\* useEffect(() => { load(); }, []): setIsLoading(true), on('log'), first fetch
LoadStart ==
    /\ loadPc = "mount"
    /\ loadPc' = "coreURL"
    /\ isLoading' = TRUE
    /\ UNCHANGED <<loaded, logMessage, format, bitDepth, sampleRate,
                   fileSel, fs, nCalls, calls>>

\* toBlobURL(ffmpeg-core.js) resolves, then toBlobURL(ffmpeg-core.wasm)
LoadFetched ==
    /\ loadPc \in {"coreURL", "wasmURL"}
    /\ loadPc' = IF loadPc = "coreURL" THEN "wasmURL" ELSE "engine"
    /\ UNCHANGED <<loaded, isLoading, logMessage, format, bitDepth, sampleRate,
                   fileSel, fs, nCalls, calls>>

\* ffmpeg.load resolves: setLoaded(true); setIsLoading(false)
LoadResolve ==
    /\ loadPc = "engine"
    /\ loadPc' = "ready"
    /\ loaded' = TRUE
    /\ isLoading' = FALSE
    /\ UNCHANGED <<logMessage, format, bitDepth, sampleRate,
                   fileSel, fs, nCalls, calls>>

\* either fetch or ffmpeg.load rejects: catch, then setIsLoading(false)
LoadReject ==
    /\ loadPc \in {"coreURL", "wasmURL", "engine"}
    /\ loadPc' = "failed"
    /\ logMessage' = LoadErrorMessage
    /\ isLoading' = FALSE
    /\ UNCHANGED <<loaded, format, bitDepth, sampleRate,
                   fileSel, fs, nCalls, calls>>

\* ffmpeg.on('log', ({ message }) => setLogMessage(message)): the engine logs
\* while it loads and while it executes
LogEvent(m) ==
    /\ \/ loadPc = "engine"
       \/ \E i \in DOMAIN calls : calls[i].pc = "exec"
    /\ logMessage' = m
    /\ UNCHANGED <<loaded, isLoading, format, bitDepth, sampleRate,
                   loadPc, fileSel, fs, nCalls, calls>>

\* ---------------------------------------------------------------- the form

\* (variant: the form rendered whatever the readiness flag)
FormRenderedAlways == TRUE
\* {!loaded ? <div>Cargando...</div> : <div> ...the form... </div>}
FormRendered == loaded

\* (variant: the button without its disabled attribute)
ButtonAlwaysEnabled == FormRendered
\* <button onClick={convert} disabled={isLoading}>
ButtonEnabled == FormRendered /\ ~isLoading

\* {format !== 'mp3' && ( ...bit depth <select>... )}
BitDepthRendered == FormRendered /\ format # "mp3"

PickFile(f) ==
    /\ FormRendered
    /\ fileSel' = f
    /\ UNCHANGED <<loaded, isLoading, logMessage, format, bitDepth, sampleRate,
                   loadPc, fs, nCalls, calls>>

SetFormat(v) ==
    /\ FormRendered
    /\ format' = v
    /\ UNCHANGED <<loaded, isLoading, logMessage, bitDepth, sampleRate,
                   loadPc, fileSel, fs, nCalls, calls>>

SetSampleRate(v) ==
    /\ FormRendered
    /\ sampleRate' = v
    /\ UNCHANGED <<loaded, isLoading, logMessage, format, bitDepth,
                   loadPc, fileSel, fs, nCalls, calls>>

SetBitDepth(v) ==
    /\ BitDepthRendered
    /\ bitDepth' = v
    /\ UNCHANGED <<loaded, isLoading, logMessage, format, sampleRate,
                   loadPc, fileSel, fs, nCalls, calls>>

\* ------------------------------------------------- the argument builder

\* args.push(...) appends its arguments to args
Push(args, toks) == args \o toks

\* let outputFilename = `output.${format}`
OutputFilename(fmt) == "output." \o fmt

\* (variant: lines 58-90 with the 32-bit branch selecting the integer codec)
BuildArgsInt32(fmt, bd, sr) ==
    LET a0 == <<"-i", "input">>
        a1 == Push(a0, <<"-ar", sr>>)
        w1 == IF bd = "16" THEN Push(a1, <<"-c:a", "pcm_s16le">>) ELSE a1
        w2 == IF bd = "24" THEN Push(w1, <<"-c:a", "pcm_s24le">>) ELSE w1
        w3 == IF bd = "32" THEN Push(w2, <<"-c:a", "pcm_s32le">>) ELSE w2
        a2 == IF fmt = "wav" THEN w3
              ELSE IF fmt = "flac" THEN a1
              ELSE IF fmt = "mp3" THEN Push(a1, <<"-b:a", "320k">>)
              ELSE a1
    IN  Push(a2, <<OutputFilename(fmt)>>)

\* lines 58-90: let args = ['-i', 'input']; ... args.push(outputFilename)
BuildArgs(fmt, bd, sr) ==
    LET a0 == <<"-i", "input">>
        a1 == Push(a0, <<"-ar", sr>>)
        w1 == IF bd = "16" THEN Push(a1, <<"-c:a", "pcm_s16le">>) ELSE a1
        w2 == IF bd = "24" THEN Push(w1, <<"-c:a", "pcm_s24le">>) ELSE w1
        w3 == IF bd = "32" THEN Push(w2, <<"-c:a", "pcm_f32le">>) ELSE w2
        a2 == IF fmt = "wav" THEN w3
              ELSE IF fmt = "flac" THEN a1
              ELSE IF fmt = "mp3" THEN Push(a1, <<"-b:a", "320k">>)
              ELSE a1
    IN  Push(a2, <<OutputFilename(fmt)>>)

\* new Blob([data.buffer], { type: `audio/${format}` })
MimeType(fmt) == "audio/" \o fmt

\* a.download = `convertido_${sampleRate}Hz_${bitDepth}bit.${format}`
DownloadName(fmt, bd, sr) ==
    "convertido_" \o sr \o "Hz_" \o bd \o "bit." \o fmt

\* --------------------------------------------------------------- convert()

\* (variant: the file check left out)
NoFileSelectedNever(f) == FALSE
\* if (!file) { alert(...); return; }
NoFileSelected(f) == f = NoFile

\* (variant: the call reading the current state, as through a ref)
LiveOptions(i) ==
    [format |-> format, bitDepth |-> bitDepth, sampleRate |-> sampleRate]
\* the option values a running call sees: format, bitDepth and sampleRate are
\* consts of the render whose convert closure the click invoked
ClosureOptions(i) ==
    [format |-> calls[i].format, bitDepth |-> calls[i].bitDepth,
     sampleRate |-> calls[i].sampleRate]

NewCall ==
    [id |-> nCalls + 1, file |-> fileSel,
     format |-> format, bitDepth |-> bitDepth, sampleRate |-> sampleRate,
     pc |-> "fetchFile", alerted |-> FALSE, steps |-> <<>>, args |-> <<>>,
     out |-> "", exit |-> NoExit, failed |-> "", download |-> NoDownload]

StillRunning == SelectSeq(calls, LAMBDA c : c.pc \in Running)

\* onClick={convert}, lines 43-55 up to the first await
ConvertClick ==
    /\ ButtonEnabled
    /\ nCalls < MaxCalls
    /\ nCalls' = nCalls + 1
    /\ IF NoFileSelected(fileSel)
         THEN /\ calls' = Append(StillRunning,
                     [NewCall EXCEPT !.pc = "returned", !.alerted = TRUE])
              /\ UNCHANGED isLoading
         ELSE /\ calls' = Append(StillRunning, NewCall)
              /\ isLoading' = TRUE
    /\ UNCHANGED <<loaded, logMessage, format, bitDepth, sampleRate,
                   loadPc, fileSel, fs>>

\* await fetchFile(file) resolves: ffmpeg.writeFile('input', bytes) is called
FetchFileResolve(i) ==
    /\ calls[i].pc = "fetchFile"
    /\ calls' = [calls EXCEPT ![i].pc = "writeFile",
                              ![i].steps = Append(@, "write")]
    /\ UNCHANGED <<loaded, isLoading, logMessage, format, bitDepth, sampleRate,
                   loadPc, fileSel, fs, nCalls>>

\* await fetchFile(file) rejects: line 55 is outside the try, convert rejects
FetchFileReject(i) ==
    /\ calls[i].pc = "fetchFile"
    /\ calls' = [calls EXCEPT ![i].pc = "rejected", ![i].failed = "fetchFile"]
    /\ UNCHANGED <<loaded, isLoading, logMessage, format, bitDepth, sampleRate,
                   loadPc, fileSel, fs, nCalls>>

\* await ffmpeg.writeFile resolves; lines 58-95: build args, call ffmpeg.exec
WriteFileResolve(i) ==
    /\ calls[i].pc = "writeFile"
    /\ fs' = [fs EXCEPT !["input"] = [by |-> calls[i].id, of |-> calls[i].file]]
    /\ LET o == ClosureOptions(i)
       IN  calls' = [calls EXCEPT
                ![i].pc = "exec",
                ![i].args = BuildArgs(o.format, o.bitDepth, o.sampleRate),
                ![i].out = OutputFilename(o.format),
                ![i].steps = Append(@, "exec")]
    /\ UNCHANGED <<loaded, isLoading, logMessage, format, bitDepth, sampleRate,
                   loadPc, fileSel, nCalls>>

\* await ffmpeg.writeFile rejects: outside the try, convert rejects
WriteFileReject(i) ==
    /\ calls[i].pc = "writeFile"
    /\ calls' = [calls EXCEPT ![i].pc = "rejected", ![i].failed = "writeFile"]
    /\ UNCHANGED <<loaded, isLoading, logMessage, format, bitDepth, sampleRate,
                   loadPc, fileSel, fs, nCalls>>

\* await ffmpeg.exec(args) resolves with the exit code, which is discarded;
\* exit code 0 leaves the output under the declared name, an error exit may
\* or may not have written it.  ffmpeg.readFile(outputFilename) is called.
ExecResolve(i, code, wrote) ==
    /\ calls[i].pc = "exec"
    /\ code = 0 => wrote
    /\ fs' = IF wrote
               THEN [fs EXCEPT ![calls[i].out] =
                        [by |-> calls[i].id, of |-> fs["input"].of]]
               ELSE fs
    /\ calls' = [calls EXCEPT ![i].pc = "readFile", ![i].exit = code,
                              ![i].steps = Append(@, "read")]
    /\ UNCHANGED <<loaded, isLoading, logMessage, format, bitDepth, sampleRate,
                   loadPc, fileSel, nCalls>>

\* the catch of lines 107-110 followed by setIsLoading(false), line 112
Caught(i, step) ==
    /\ calls' = [calls EXCEPT ![i].pc = "returned", ![i].failed = step]
    /\ logMessage' = ConversionErrorMessage
    /\ isLoading' = FALSE
    /\ UNCHANGED <<loaded, format, bitDepth, sampleRate,
                   loadPc, fileSel, fs, nCalls>>

\* await ffmpeg.exec(args) rejects
ExecReject(i) ==
    /\ calls[i].pc = "exec"
    /\ Caught(i, "exec")

\* await ffmpeg.readFile resolves; lines 101-106 and 112: the download
ReadFileResolve(i) ==
    /\ calls[i].pc = "readFile"
    /\ fs[calls[i].out] # Absent
    /\ LET o == ClosureOptions(i)
       IN  calls' = [calls EXCEPT
                ![i].pc = "returned",
                ![i].download =
                    [name |-> DownloadName(o.format, o.bitDepth, o.sampleRate),
                     type |-> MimeType(o.format),
                     data |-> fs[calls[i].out]],
                ![i].steps = Append(@, "download")]
    /\ isLoading' = FALSE
    /\ UNCHANGED <<loaded, logMessage, format, bitDepth, sampleRate,
                   loadPc, fileSel, fs, nCalls>>

\* await ffmpeg.readFile resolves but lines 101-106 throw before a.click()
DownloadThrows(i) ==
    /\ calls[i].pc = "readFile"
    /\ fs[calls[i].out] # Absent
    /\ Caught(i, "download")

\* await ffmpeg.readFile rejects (always so when the file does not exist)
ReadFileReject(i) ==
    /\ calls[i].pc = "readFile"
    /\ Caught(i, "readFile")

\* ------------------------------------------------------- the specifications

Next ==
    \/ LoadStart
    \/ LoadFetched
    \/ LoadResolve
    \/ LoadReject
    \/ \E m \in LogLines : LogEvent(m)
    \/ \E f \in Files \cup {NoFile} : PickFile(f)
    \/ \E v \in Formats : SetFormat(v)
    \/ \E v \in SampleRates : SetSampleRate(v)
    \/ \E v \in BitDepths : SetBitDepth(v)
    \/ ConvertClick
    \/ \E i \in DOMAIN calls : FetchFileResolve(i)
    \/ \E i \in DOMAIN calls : FetchFileReject(i)
    \/ \E i \in DOMAIN calls : WriteFileResolve(i)
    \/ \E i \in DOMAIN calls : WriteFileReject(i)
    \/ \E i \in DOMAIN calls, code \in ExitCodes, wrote \in BOOLEAN :
         ExecResolve(i, code, wrote)
    \/ \E i \in DOMAIN calls : ExecReject(i)
    \/ \E i \in DOMAIN calls : ReadFileResolve(i)
    \/ \E i \in DOMAIN calls : DownloadThrows(i)
    \/ \E i \in DOMAIN calls : ReadFileReject(i)

Spec == Init /\ [][Next]_vars

\* The builder on every input it must tolerate: a loaded page whose option
\* state holds arbitrary values, driven through convert.
BuildInit ==
    /\ loaded = TRUE
    /\ isLoading = FALSE
    /\ logMessage \in LogLines \cup {ReadyMessage}
    /\ format \in Formats
    /\ bitDepth \in AnyBitDepths
    /\ sampleRate \in AnySampleRates
    /\ loadPc = "ready"
    /\ fileSel \in Files
    /\ fs = EmptyStorage
    /\ nCalls = 0
    /\ calls = <<>>

BuildNext ==
    \/ \E m \in LogLines : LogEvent(m)
    \/ ConvertClick
    \/ \E i \in DOMAIN calls : FetchFileResolve(i)
    \/ \E i \in DOMAIN calls : FetchFileReject(i)
    \/ \E i \in DOMAIN calls : WriteFileResolve(i)
    \/ \E i \in DOMAIN calls : WriteFileReject(i)
    \/ \E i \in DOMAIN calls, code \in ExitCodes, wrote \in BOOLEAN :
         ExecResolve(i, code, wrote)
    \/ \E i \in DOMAIN calls : ExecReject(i)
    \/ \E i \in DOMAIN calls : ReadFileResolve(i)
    \/ \E i \in DOMAIN calls : DownloadThrows(i)
    \/ \E i \in DOMAIN calls : ReadFileReject(i)

BuildSpec == BuildInit /\ [][BuildNext]_vars

\* ------------------------------------------------------------------ claims

Ended(i) == calls[i].pc \in {"returned", "rejected"}

IsPrefix(s, t) ==
    /\ Len(s) <= Len(t)
    /\ \A k \in 1..Len(s) : s[k] = t[k]

StepOrder == <<"write", "exec", "read", "download">>

\* the engine execution of call i failed: the exec promise rejected, or the
\* engine ended with an error exit code
ExecFailed(i) == calls[i].failed = "exec" \/ calls[i].exit \notin {NoExit, 0}

\* C1: a click on the trigger while no file is selected alerts and returns:
\* the call makes no step on the engine (no write, no execution, no read) and
\* no download, and the storage, the busy flag and the diagnostic message are
\* as they were before the click.
C1_NoFileLeavesEngineUntouched ==
    [][(nCalls' = nCalls + 1 /\ fileSel = NoFile) =>
         LET c == calls'[Len(calls')]
         IN  /\ c.alerted
             /\ c.pc = "returned"
             /\ c.steps = <<>>
             /\ c.download = NoDownload
             /\ fs' = fs
             /\ isLoading' = isLoading
             /\ logMessage' = logMessage]_vars

\* a no-file click made after an earlier conversion left its buffers behind
C1_Witness ==
    \E i \in DOMAIN calls :
        /\ calls[i].alerted
        /\ calls[i].file = NoFile
        /\ calls[i].id > 1
        /\ fs["input"] # Absent

\* C2: a call whose engine execution failed and that has ended left the fixed
\* failure message in the diagnostic state, triggered no download, executed
\* the engine once, and left the busy flag false.
C2_ExecFailureReported ==
    \A i \in DOMAIN calls :
        (Ended(i) /\ ExecFailed(i)) =>
            /\ logMessage = ConversionErrorMessage
            /\ calls[i].download = NoDownload
            /\ Len(SelectSeq(calls[i].steps, LAMBDA e : e = "exec")) = 1
            /\ ~isLoading

\* C3: at most one convert call is in flight, and the trigger is disabled
\* while one is.
C3_SingleFlight ==
    /\ Cardinality({i \in DOMAIN calls : InFlight(i)}) <= 1
    /\ \A i \in DOMAIN calls : InFlight(i) => ~ButtonEnabled

\* a second conversion executing, the selectors moved since its click
C3_Witness ==
    \E i \in DOMAIN calls :
        /\ calls[i].pc = "exec"
        /\ calls[i].id = 2
        /\ format # calls[i].format

\* C4: the busy flag is true while a call that passed the file check is in
\* flight, and false once the call has ended, however it ended.
C4_BusyBracketsCall ==
    \A i \in DOMAIN calls :
        /\ InFlight(i) => isLoading
        /\ (Ended(i) /\ \A j \in DOMAIN calls : ~InFlight(j)) => ~isLoading

\* C5: neither load nor any convert call ends rejected.
C5_NoFailureEscapes ==
    /\ loadPc # "rejected"
    /\ \A i \in DOMAIN calls : calls[i].pc # "rejected"

\* C6: while the engine is not ready no convert call has made any step on the
\* engine and the storage is empty; a failed bootstrap stays failed; readiness
\* once true stays true.
C6_NotReadyBlocksConversion ==
    /\ [](~loaded =>
            /\ fs = EmptyStorage
            /\ \A i \in DOMAIN calls : calls[i].steps = <<>>)
    /\ [][/\ loaded => loaded'
          /\ loadPc = "failed" => loadPc' = "failed"]_vars

\* the bootstrap has failed and the page is idle
C6_Witness ==
    /\ loadPc = "failed"
    /\ ~loaded
    /\ ~isLoading
    /\ logMessage = LoadErrorMessage

\* the argument list as the specification states it
ReferenceArgs(fmt, bd, sr) ==
    <<"-i", "input", "-ar", sr>>
    \o (CASE fmt = "wav" /\ bd = "16" -> <<"-c:a", "pcm_s16le">>
          [] fmt = "wav" /\ bd = "24" -> <<"-c:a", "pcm_s24le">>
          [] fmt = "wav" /\ bd = "32" -> <<"-c:a", "pcm_f32le">>
          [] fmt = "mp3" -> <<"-b:a", "320k">>
          [] OTHER -> <<>>)
    \o <<"output." \o fmt>>

\* C7: for every format in {wav, flac, mp3}, every bitDepth and every
\* sampleRate, the argument list handed to the engine is the reference list.
C7_ArgsMatchReference ==
    \A i \in DOMAIN calls :
        (calls[i].args # <<>> /\ calls[i].format \in Formats) =>
            calls[i].args =
                ReferenceArgs(calls[i].format, calls[i].bitDepth,
                              calls[i].sampleRate)

\* a wav conversion built with a bit depth that is none of 16, 24, 32
C7_Witness ==
    \E i \in DOMAIN calls :
        /\ calls[i].args # <<>>
        /\ calls[i].format = "wav"
        /\ calls[i].bitDepth \notin BitDepths

\* C8: the steps of a call occur in the order write, execution, read,
\* download, each at most once, and a call that triggered a download had its
\* engine execution succeed and its read succeed.
C8_OrderedSteps ==
    \A i \in DOMAIN calls :
        /\ IsPrefix(calls[i].steps, StepOrder)
        /\ calls[i].download # NoDownload =>
              /\ calls[i].steps = StepOrder
              /\ calls[i].exit = 0
              /\ calls[i].failed = ""

\* C9: the argument list, the output file read back, the MIME type and the
\* download name of a call all come from the options selected at its click.
C9_OptionsSnapshot ==
    \A i \in DOMAIN calls :
        LET c == calls[i]
        IN  /\ c.args # <<>> =>
                /\ c.args = BuildArgs(c.format, c.bitDepth, c.sampleRate)
                /\ c.out = "output." \o c.format
            /\ c.download # NoDownload =>
                /\ c.download.type = "audio/" \o c.format
                /\ c.download.name =
                     "convertido_" \o c.sampleRate \o "Hz_" \o c.bitDepth
                        \o "bit." \o c.format
                /\ c.download.data = fs["output." \o c.format]

\* a download made after all three selectors moved during the conversion
C9_Witness ==
    \E i \in DOMAIN calls :
        /\ calls[i].download # NoDownload
        /\ format # calls[i].format
        /\ bitDepth # calls[i].bitDepth
        /\ sampleRate # calls[i].sampleRate

\* C10: the bytes of a download are those the engine wrote under the output
\* name during the same convert call.
C10_DownloadIsOwnOutput ==
    \A i \in DOMAIN calls :
        calls[i].download # NoDownload =>
            calls[i].download.data.by = calls[i].id

====
